---- MODULE Spec2Model ----
(***************************************************************************)
(* Model of the two translate handlers of the repository:                  *)
(*   src/api/translate.ts   (impl = "translate_ts")                        *)
(*   src/unnamed/part_001   (impl = "part_001")                            *)
(* A text is a JavaScript string: a sequence of UTF-16 code units.         *)
(* A handler invocation runs synchronously up to its first await of an     *)
(* upstream fetch; each upstream reply resumes it.                         *)
(***************************************************************************)
EXTENDS Integers, Sequences, FiniteSets, TLC

VARIABLES env, rq, served

vars == <<env, rq, served>>

\* Number of requests one instance serves one after the other.
MaxRequests == 2

Reqs == {1}

--------------------------------------------------------------------------
\* Code units used by the sources (decimal values of the code points).

APOS == 39          \* '
QMARK == 63         \* ?
HangulFirst == 12593   \* U+3131
HangulLast == 55203    \* U+D7A3

\* [‘’ʼʻ]
CurlyApostrophes == {8216, 8217, 700, 699}

\* String.prototype.trim: WhiteSpace and LineTerminator code units.
WhiteSpace ==
  {9, 10, 11, 12, 13, 32, 160, 5760, 8232, 8233, 8239, 8287, 12288, 65279}
    \cup (8192..8202)

\* The text operators below bind their argument once, as the element of a
\* singleton set, so that it is a value when their body reads it repeatedly.

\* String.prototype.toLowerCase on one code unit, for the blocks the model
\* draws characters from: ASCII, basic Cyrillic, U+A78D (lower case U+0265)
\* and the Cherokee capitals U+13A0..U+13EF (lower case U+AB70..U+ABBF).
LowerUnit(c) ==
  IF c >= 65 /\ c <= 90 THEN c + 32
  ELSE IF c >= 1040 /\ c <= 1071 THEN c + 32
  ELSE IF c >= 1024 /\ c <= 1039 THEN c + 80
  ELSE IF c = 42893 THEN 613
  ELSE IF c >= 5024 /\ c <= 5103 THEN c + 38864
  ELSE c

ToLowerCase(s) ==
  CHOOSE out \in {[i \in 1..Len(v) |-> LowerUnit(v[i])] : v \in {s}} : TRUE

RECURSIVE TrimStart(_)
TrimStart(s) ==
  CHOOSE out \in
    {IF v # <<>> /\ Head(v) \in WhiteSpace THEN TrimStart(Tail(v)) ELSE v
       : v \in {s}} : TRUE

RECURSIVE TrimEnd(_)
TrimEnd(s) ==
  CHOOSE out \in
    {IF v # <<>> /\ v[Len(v)] \in WhiteSpace
     THEN TrimEnd(SubSeq(v, 1, Len(v) - 1)) ELSE v
       : v \in {s}} : TRUE

Trim(s) == TrimEnd(TrimStart(s))

StartsWith(s, p) ==
  \E v \in {s} : Len(v) >= Len(p) /\ SubSeq(v, 1, Len(p)) = p

Includes(s, p) ==
  \E v \in {s} : \E i \in 1..(Len(v) + 1) :
     i + Len(p) - 1 <= Len(v) /\ SubSeq(v, i, i + Len(p) - 1) = p

\* s.replace(/c/g, rep) for a single code unit c.
RECURSIVE ReplaceAll(_, _, _)
ReplaceAll(s, c, rep) ==
  CHOOSE out \in
    {IF v = <<>> THEN <<>>
     ELSE (IF Head(v) = c THEN rep ELSE <<Head(v)>>)
            \o ReplaceAll(Tail(v), c, rep)
       : v \in {s}} : TRUE

--------------------------------------------------------------------------
\* Pure functions of the handlers.

Impls == {"translate_ts", "part_001"}

\* Variant of unifyApostrophe: the class lacks U+02BB.
unifyApostropheNoTurned(s) ==
  CHOOSE out \in
    {[i \in 1..Len(v) |-> IF v[i] \in {8216, 8217, 700} THEN APOS ELSE v[i]]
       : v \in {s}} : TRUE

unifyApostrophe(s) ==
  CHOOSE out \in
    {[i \in 1..Len(v) |-> IF v[i] \in CurlyApostrophes THEN APOS ELSE v[i]]
       : v \in {s}} : TRUE

\* The ordered replace chain shared by both files.
DigraphChain(s) ==
  LET r1 == ReplaceAll(s, 1063, <<67, 104>>)      \* Ch
      r2 == ReplaceAll(r1, 1095, <<99, 104>>)     \* ch
      r3 == ReplaceAll(r2, 1064, <<83, 104>>)     \* Sh
      r4 == ReplaceAll(r3, 1096, <<115, 104>>)    \* sh
      r5 == ReplaceAll(r4, 1070, <<89, 117>>)     \* Yu
      r6 == ReplaceAll(r5, 1102, <<121, 117>>)    \* yu
      r7 == ReplaceAll(r6, 1071, <<89, 97>>)      \* Ya
      r8 == ReplaceAll(r7, 1103, <<121, 97>>)     \* ya
      r9 == ReplaceAll(r8, 1025, <<89, 111>>)     \* Yo
      r10 == ReplaceAll(r9, 1105, <<121, 111>>)   \* yo
  IN r10

cyrToLatin(impl, input) ==
  CHOOSE out \in
    {IF v = <<>> THEN v
     ELSE IF impl = "translate_ts" THEN unifyApostrophe(DigraphChain(v))
     ELSE DigraphChain(v)
       : v \in {input}} : TRUE

hasHangul(s) ==
  \E v \in {s} : \E i \in 1..Len(v) : v[i] >= HangulFirst /\ v[i] <= HangulLast

W_kechirasiz == <<107, 101, 99, 104, 105, 114, 97, 115, 105, 122>>
W_uzr == <<117, 122, 114>>
W_sorry == <<115, 111, 114, 114, 121>>
W_i_cannot == <<105, 32, 99, 97, 110, 110, 111, 116>>
W_men_bajara_olmayman ==
  <<109, 101, 110, 32, 98, 97, 106, 97, 114, 97, 32,
    111, 108, 109, 97, 121, 109, 97, 110>>
W_impossible == <<105, 109, 112, 111, 115, 115, 105, 98, 108, 101>>

looksLikeApologyOrRefusal(s) ==
  \E t \in {ToLowerCase(Trim(s))} :
     \E w \in {W_kechirasiz, W_uzr, W_sorry, W_i_cannot,
               W_men_bajara_olmayman, W_impossible} : StartsWith(t, w)

isBadOutput(s) ==
  \E t \in {ToLowerCase(Trim(s))} :
     \/ hasHangul(t)
     \/ Includes(t, <<QMARK, QMARK, QMARK>>)
     \/ StartsWith(t, W_sorry)
     \/ StartsWith(t, W_uzr)
     \/ StartsWith(t, W_kechirasiz)

\* unifyApostrophe(cyrToLatin(raw)).trim()
NormalizeTrim(impl, raw) == Trim(unifyApostrophe(cyrToLatin(impl, raw)))

\* "Tarjima muvaffaqiyatsiz bajarildi (fallback)."
FallbackText ==
  <<84, 97, 114, 106, 105, 109, 97, 32,
    109, 117, 118, 97, 102, 102, 97, 113, 105, 121, 97, 116, 115, 105, 122, 32,
    98, 97, 106, 97, 114, 105, 108, 100, 105, 32,
    40, 102, 97, 108, 108, 98, 97, 99, 107, 41, 46>>

\* Variant of Utf8Bytes: the "latin1" encoding, one byte per code unit.
Utf8BytesLatin1(s) ==
  CHOOSE out \in {[i \in 1..Len(v) |-> v[i] % 256] : v \in {s}} : TRUE

\* Buffer.from(s, "utf8"): the UTF-8 bytes of a UTF-16 string.  A surrogate
\* pair is one code point; an unpaired surrogate is encoded as U+FFFD.
RECURSIVE Utf8Bytes(_)
Utf8Bytes(s) ==
  CHOOSE out \in
    {IF v = <<>> THEN <<>>
     ELSE LET c == Head(v)
          IN IF c < 128 THEN <<c>> \o Utf8Bytes(Tail(v))
             ELSE IF c < 2048
               THEN <<192 + (c \div 64), 128 + (c % 64)>> \o Utf8Bytes(Tail(v))
             ELSE IF c >= 55296 /\ c <= 56319 /\ Len(v) >= 2
                     /\ v[2] >= 56320 /\ v[2] <= 57343
               THEN LET cp == 65536 + (c - 55296) * 1024 + (v[2] - 56320)
                    IN <<240 + (cp \div 262144), 128 + ((cp \div 4096) % 64),
                         128 + ((cp \div 64) % 64), 128 + (cp % 64)>>
                       \o Utf8Bytes(Tail(Tail(v)))
             ELSE IF c >= 55296 /\ c <= 57343
               THEN <<239, 191, 189>> \o Utf8Bytes(Tail(v))
             ELSE <<224 + (c \div 4096), 128 + ((c \div 64) % 64),
                    128 + (c % 64)>> \o Utf8Bytes(Tail(v))
       : v \in {s}} : TRUE

\* The Base64 alphabet A-Z a-z 0-9 + / as code units; '=' pads.
B64PAD == 61

B64Char(v) ==
  IF v < 26 THEN 65 + v
  ELSE IF v < 52 THEN 97 + (v - 26)
  ELSE IF v < 62 THEN 48 + (v - 52)
  ELSE IF v = 62 THEN 43
  ELSE 47

\* buf.toString("base64")
RECURSIVE Base64Encode(_)
Base64Encode(b) ==
  CHOOSE out \in
    {IF v = <<>> THEN <<>>
     ELSE IF Len(v) = 1
       THEN <<B64Char(v[1] \div 4), B64Char((v[1] % 4) * 16), B64PAD, B64PAD>>
     ELSE IF Len(v) = 2
       THEN <<B64Char(v[1] \div 4),
              B64Char((v[1] % 4) * 16 + (v[2] \div 16)),
              B64Char((v[2] % 16) * 4), B64PAD>>
     ELSE <<B64Char(v[1] \div 4),
            B64Char((v[1] % 4) * 16 + (v[2] \div 16)),
            B64Char((v[2] % 16) * 4 + (v[3] \div 64)),
            B64Char(v[3] % 64)>>
          \o Base64Encode(SubSeq(v, 4, Len(v)))
       : v \in {b}} : TRUE

toBase64Utf8(s) == Base64Encode(Utf8Bytes(s))

--------------------------------------------------------------------------
\* Inputs: configuration, requests and upstream replies.

NoText == <<>>

\* Values of process.env.CLIENT_TOKEN; unset is [set |-> FALSE].
TokenS == <<115>>                 \* "s"
TokenSNewline == <<115, 10>>      \* "s\n"
TokenBlank == <<32>>              \* " "

ClientTokens ==
  {[set |-> FALSE, val |-> NoText]}
    \cup {[set |-> TRUE, val |-> t] : t \in {TokenS, TokenSNewline, TokenBlank}}

BearerPrefix == <<66, 101, 97, 114, 101, 114, 32>>    \* "Bearer "
BasicPrefix == <<66, 97, 115, 105, 99, 32>>           \* "Basic "

\* Values of req.headers["authorization"]; absent is the empty text.
AuthHeaders ==
  {NoText, BearerPrefix \o <<115>>, BearerPrefix \o <<120>>, BasicPrefix \o <<115>>}

Methods == {"OPTIONS", "GET", "POST", "PUT"}

\* A field of the body: a string, absent, or a value of another type.
StrField(t) == [type |-> "string", val |-> t]
NoField == [type |-> "undefined", val |-> NoText]
NumField == [type |-> "number", val |-> NoText]

SrcKorean == <<50504, 45397>>
SrcPadded == <<32, 50504, 10>>
LangUz == <<117, 122>>

SourceTexts == {SrcKorean, SrcPadded, NoText}

\* Values of req.body: kind is typeof req.body ("undefined", "object" or
\* "string"); for a string, json says what JSON.parse makes of it.
ObjBody(t, l) == [kind |-> "object", json |-> "object", text |-> t, targetLang |-> l]
StrBody(j, t, l) == [kind |-> "string", json |-> j, text |-> t, targetLang |-> l]

Bodies ==
  {ObjBody(StrField(t), StrField(LangUz)) : t \in SourceTexts}
    \cup {ObjBody(NumField, StrField(LangUz)),
          ObjBody(StrField(SrcKorean), NoField),
          ObjBody(NoField, NoField),
          StrBody("object", StrField(SrcKorean), StrField(LangUz)),
          StrBody("invalid", NoField, NoField),
          StrBody("null", NoField, NoField),
          StrBody("empty", NoField, NoField),
          [kind |-> "undefined", json |-> "object", text |-> NoField,
           targetLang |-> NoField]}

\* Completion texts the upstream may return.
ReplyTexts ==
  { NoText,
    <<32>>,                               \* " "
    <<44032>>,                            \* Hangul syllable
    <<85, 122, 114>>,                     \* "Uzr"
    <<97, 63, 63, 63>>,                   \* "a???"
    <<32, 97, 10, 98, 32>>,               \* " a\nb "
    <<1063, 700>>,                        \* Cyrillic Che, U+02BC
    <<55357, 56832>>,                     \* surrogate pair (emoji)
    <<55357>>,                            \* unpaired surrogate
    <<42893>>,                            \* U+A78D
    <<5024>>,                             \* U+13A0
    W_i_cannot,
    <<97, 32, 117, 122, 114>>,            \* "a uzr"
    <<1170, 1070>>,                       \* Cyrillic Ghe with stroke, Yu
    <<111, 699>> }                        \* "o", U+02BB

\* An upstream outcome: the fetch rejects (net = "fail"), or resolves with
\* a status and a body that is unparsable, JSON without a content, or JSON
\* with choices[0].message.content.
NetFail == [net |-> "fail", status |-> 0, json |-> "invalid", content |-> NoText]
Http(st, j, c) == [net |-> "ok", status |-> st, json |-> j, content |-> c]

Replies ==
  {NetFail}
    \cup {Http(200, "content", t) : t \in ReplyTexts}
    \cup {Http(st, j, NoText) : st \in {200, 429}, j \in {"invalid", "nocontent"}}
    \cup {Http(429, "content", <<97>>)}

RespOk(reply) == reply.status >= 200 /\ reply.status <= 299

\* data?.choices?.[0]?.message?.content ?? ""
ContentOf(reply) == IF reply.json = "content" THEN reply.content ELSE NoText

--------------------------------------------------------------------------
\* Responses and the request record.

NoRes == [status |-> 0, shape |-> "none", error |-> "", text |-> NoText,
          b64 |-> NoText]

\* res.status(st).end() / .send("ok") / .json({error}) / .json({error, detail})
\* / .json({ok: false, error}); shape names the body.
Plain(st, shape, err) ==
  [status |-> st, shape |-> shape, error |-> err, text |-> NoText, b64 |-> NoText]

\* res.status(200).json({ ok: true, mode: "translate", result_b64 })
Translated(result_latin) ==
  [status |-> 200, shape |-> "translate", error |-> "", text |-> result_latin,
   b64 |-> toBase64Utf8(result_latin)]

\* The catch block of the handlers.
Caught(msg) == Plain(500, "ok_false", msg)

Idle ==
  [pc |-> "idle", method |-> "POST", authorization |-> NoText,
   body |-> ObjBody(NoField, NoField), sent |-> <<>>, got |-> <<>>,
   result_latin |-> NoText, usedFallback |-> FALSE, res |-> NoRes]

Finish(q, res) == [q EXCEPT !.pc = "done", !.res = res]

\* The system prompts, named by file and role.
SystemPrompt(impl, attempt) ==
  IF impl = "translate_ts"
  THEN (IF attempt = 1 THEN "translate_ts:strict literal translator"
        ELSE "translate_ts:retry")
  ELSE "part_001:professional translator"

\* Variant of Fetch: the retry is issued speculatively along with the first
\* call.
FetchSpeculative(impl, q, attempt, sourceText) ==
  IF attempt = 1
  THEN [q EXCEPT !.pc = "await1",
                 !.sent = @ \o <<[system |-> SystemPrompt(impl, 1),
                                  user |-> sourceText],
                                 [system |-> SystemPrompt(impl, 2),
                                  user |-> sourceText]>>]
  ELSE [q EXCEPT !.pc = "await2"]

\* Variant of Fetch: the source text is trimmed before it is sent.
FetchTrimmed(impl, q, attempt, sourceText) ==
  [q EXCEPT !.pc = IF attempt = 1 THEN "await1" ELSE "await2",
            !.sent = Append(@, [system |-> SystemPrompt(impl, attempt),
                                user |-> Trim(sourceText)])]

\* One fetch of the completion endpoint is issued and awaited.
Fetch(impl, q, attempt, sourceText) ==
  [q EXCEPT !.pc = IF attempt = 1 THEN "await1" ELSE "await2",
            !.sent = Append(@, [system |-> SystemPrompt(impl, attempt),
                                user |-> sourceText])]

\* Variant of TokenRejected: only a header with the Bearer scheme is compared.
TokenRejectedBearerOnly(e, q) ==
  /\ e.CLIENT_TOKEN.set
  /\ StartsWith(q.authorization, BearerPrefix)
  /\ Trim(SubSeq(q.authorization, 8, Len(q.authorization)))
       # Trim(e.CLIENT_TOKEN.val)

\* The client token gate.
TokenRejected(e, q) ==
  /\ e.CLIENT_TOKEN.set
  /\ LET auth == q.authorization
         incoming == IF StartsWith(auth, BearerPrefix)
                     THEN SubSeq(auth, 8, Len(auth)) ELSE NoText
     IN Trim(incoming) # Trim(e.CLIENT_TOKEN.val)

\* typeof req.body === "string" ? JSON.parse(req.body || "{}") : (req.body || {})
\* throws is a SyntaxError of JSON.parse; isNull is a parsed null, whose
\* property read throws a TypeError.
ParseBody(b) ==
  IF b.kind = "string"
  THEN [throws |-> b.json = "invalid", isNull |-> b.json = "null",
        text |-> IF b.json = "object" THEN b.text ELSE NoField,
        targetLang |-> IF b.json = "object" THEN b.targetLang ELSE NoField]
  ELSE [throws |-> FALSE, isNull |-> FALSE,
        text |-> IF b.kind = "object" THEN b.text ELSE NoField,
        targetLang |-> IF b.kind = "object" THEN b.targetLang ELSE NoField]

\* Variant of Invoke: the API key is tested before the client token.
InvokeKeyFirst(e, q) ==
  IF q.method = "OPTIONS" THEN Finish(q, Plain(200, "end", ""))
  ELSE IF q.method = "GET" THEN Finish(q, Plain(200, "ok_text", ""))
  ELSE IF q.method # "POST"
    THEN Finish(q, Plain(405, "error", "Method Not Allowed"))
  ELSE IF ~e.OPENAI_API_KEY
    THEN Finish(q, Plain(500, "error", "Missing OPENAI_API_KEY"))
  ELSE IF TokenRejected(e, q)
    THEN Finish(q, Plain(401, "error", "Unauthorized: Invalid client token."))
  ELSE LET body == ParseBody(q.body)
       IN IF body.throws THEN Finish(q, Caught("SyntaxError"))
          ELSE IF body.isNull THEN Finish(q, Caught("TypeError"))
          ELSE IF body.text.type # "string" \/ body.targetLang.type # "string"
            THEN Finish(q, Plain(400, "error",
                                 "Bad Request: need { text, targetLang }"))
          ELSE Fetch(e.impl, q, 1, body.text.val)

\* The handler from its entry to its first await or to its response.
Invoke(e, q) ==
  IF q.method = "OPTIONS" THEN Finish(q, Plain(200, "end", ""))
  ELSE IF q.method = "GET" THEN Finish(q, Plain(200, "ok_text", ""))
  ELSE IF q.method # "POST"
    THEN Finish(q, Plain(405, "error", "Method Not Allowed"))
  ELSE IF TokenRejected(e, q)
    THEN Finish(q, Plain(401, "error", "Unauthorized: Invalid client token."))
  ELSE IF ~e.OPENAI_API_KEY
    THEN Finish(q, Plain(500, "error", "Missing OPENAI_API_KEY"))
  ELSE LET body == ParseBody(q.body)
       IN IF body.throws THEN Finish(q, Caught("SyntaxError"))
          ELSE IF body.isNull THEN Finish(q, Caught("TypeError"))
          ELSE IF body.text.type # "string" \/ body.targetLang.type # "string"
            THEN Finish(q, Plain(400, "error",
                                 "Bad Request: need { text, targetLang }"))
          ELSE Fetch(e.impl, q, 1, body.text.val)

\* Variant of NeedsRetry: every first output is retried.
NeedsRetryAlways(impl, result_latin) == TRUE

\* The retry is needed: translate.ts line 130, part_001 line 113.
NeedsRetry(impl, result_latin) ==
  IF impl = "translate_ts"
  THEN looksLikeApologyOrRefusal(result_latin) \/ hasHangul(result_latin)
  ELSE isBadOutput(result_latin)

\* Variant of Conclude: the text stored before the retry is answered.
ConcludeStale(impl, q, result_latin) ==
  IF impl = "part_001" /\ (isBadOutput(result_latin) \/ result_latin = NoText)
  THEN Finish([q EXCEPT !.result_latin = FallbackText, !.usedFallback = TRUE],
              Translated(FallbackText))
  ELSE Finish(q, Translated(q.result_latin))

\* The tail of the handlers: part_001 substitutes the fallback text for a
\* bad or empty result; translate.ts has no such step.
Conclude(impl, q, result_latin) ==
  IF impl = "part_001" /\ (isBadOutput(result_latin) \/ result_latin = NoText)
  THEN Finish([q EXCEPT !.result_latin = FallbackText, !.usedFallback = TRUE],
              Translated(FallbackText))
  ELSE Finish([q EXCEPT !.result_latin = result_latin],
              Translated(result_latin))

\* Variant of SourceOf: the source text is kept in a variable of the module,
\* which an invocation arriving in between has overwritten.
SourceOfShared(q) ==
  IF \E o \in DOMAIN rq : /\ rq[o].pc \in {"await1", "await2"}
                          /\ rq[o].sent[1].user # q.sent[1].user
  THEN rq[CHOOSE o \in DOMAIN rq : /\ rq[o].pc \in {"await1", "await2"}
                                   /\ rq[o].sent[1].user # q.sent[1].user
         ].sent[1].user
  ELSE q.sent[1].user

\* The source text of the request in flight: the user message already sent.
SourceOf(q) == q.sent[1].user

\* Variant of Resume1: a rejected fetch is not caught and nothing is answered.
Resume1Hanging(e, q0, reply) ==
  LET q == [q0 EXCEPT !.got = Append(@, reply)]
  IN IF reply.net = "fail" THEN [q EXCEPT !.pc = "hung"]
     ELSE IF ~RespOk(reply)
       THEN (IF e.impl = "translate_ts"
             THEN Finish(q, Plain(reply.status, "error_detail", "OpenAI error"))
             ELSE Finish(q, Caught("OpenAI error status: errText")))
     ELSE IF reply.json = "invalid" THEN Finish(q, Caught("SyntaxError"))
     ELSE LET result_latin == NormalizeTrim(e.impl, ContentOf(reply))
          IN IF NeedsRetry(e.impl, result_latin)
             THEN Fetch(e.impl, [q EXCEPT !.result_latin = result_latin], 2,
                        SourceOf(q))
             ELSE Conclude(e.impl, q, result_latin)

\* The handler resumes with the outcome of its first fetch.
Resume1(e, q0, reply) ==
  LET q == [q0 EXCEPT !.got = Append(@, reply)]
  IN IF reply.net = "fail" THEN Finish(q, Caught("fetch failed"))
     ELSE IF ~RespOk(reply)
       THEN (IF e.impl = "translate_ts"
             THEN Finish(q, Plain(reply.status, "error_detail", "OpenAI error"))
             ELSE Finish(q, Caught("OpenAI error status: errText")))
     ELSE IF reply.json = "invalid" THEN Finish(q, Caught("SyntaxError"))
     ELSE LET result_latin == NormalizeTrim(e.impl, ContentOf(reply))
          IN IF NeedsRetry(e.impl, result_latin)
             THEN Fetch(e.impl, [q EXCEPT !.result_latin = result_latin], 2,
                        SourceOf(q))
             ELSE Conclude(e.impl, q, result_latin)

\* Variant of Resume2: a bad second output is retried again.
Resume2Retrying(e, q0, reply) ==
  LET q == [q0 EXCEPT !.got = Append(@, reply)]
  IN IF reply.net = "fail" THEN Finish(q, Caught("fetch failed"))
     ELSE IF e.impl = "part_001" /\ ~RespOk(reply)
       THEN Finish(q, Caught("OpenAI error status: errText"))
     ELSE IF e.impl = "part_001" /\ reply.json = "invalid"
       THEN Finish(q, Caught("SyntaxError"))
     ELSE LET result_latin ==
                NormalizeTrim(e.impl,
                   IF reply.json = "invalid" THEN NoText ELSE ContentOf(reply))
          IN IF NeedsRetry(e.impl, result_latin)
             THEN Fetch(e.impl, [q EXCEPT !.result_latin = result_latin], 2,
                        SourceOf(q))
             ELSE Conclude(e.impl, q, result_latin)

\* The handler resumes with the outcome of its second fetch.  translate.ts
\* does not test retryResp.ok and reads an unparsable body as {}.
Resume2(e, q0, reply) ==
  LET q == [q0 EXCEPT !.got = Append(@, reply)]
  IN IF reply.net = "fail" THEN Finish(q, Caught("fetch failed"))
     ELSE IF e.impl = "translate_ts"
       THEN Conclude(e.impl, q,
                     NormalizeTrim(e.impl,
                        IF reply.json = "invalid" THEN NoText ELSE ContentOf(reply)))
     ELSE IF ~RespOk(reply) THEN Finish(q, Caught("OpenAI error status: errText"))
     ELSE IF reply.json = "invalid" THEN Finish(q, Caught("SyntaxError"))
     ELSE Conclude(e.impl, q, NormalizeTrim(e.impl, ContentOf(reply)))

--------------------------------------------------------------------------
\* The state machine.

Init ==
  /\ env \in [impl : Impls, CLIENT_TOKEN : ClientTokens, OPENAI_API_KEY : BOOLEAN]
  /\ rq = [r \in Reqs |-> Idle]
  /\ served = 0

\* A request arrives and the handler runs to its first await or response.
Request(r) ==
  /\ rq[r].pc = "idle"
  /\ served < MaxRequests
  /\ \E m \in Methods, a \in AuthHeaders, b \in Bodies :
        rq' = [rq EXCEPT ![r] =
                 Invoke(env, [Idle EXCEPT !.method = m, !.authorization = a,
                                          !.body = b])]
  /\ served' = served + 1
  /\ UNCHANGED env

\* The first upstream call returns or fails.
Reply1(r) ==
  /\ rq[r].pc = "await1"
  /\ \E reply \in Replies : rq' = [rq EXCEPT ![r] = Resume1(env, rq[r], reply)]
  /\ UNCHANGED <<env, served>>

\* The second upstream call returns or fails.
Reply2(r) ==
  /\ rq[r].pc = "await2"
  /\ \E reply \in Replies : rq' = [rq EXCEPT ![r] = Resume2(env, rq[r], reply)]
  /\ UNCHANGED <<env, served>>

\* The response has been sent; the instance is free for the next request.
Release(r) ==
  /\ rq[r].pc = "done"
  /\ rq' = [rq EXCEPT ![r] = Idle]
  /\ UNCHANGED <<env, served>>

Next == \E r \in Reqs : Request(r) \/ Reply1(r) \/ Reply2(r) \/ Release(r)

Spec == Init /\ [][Next]_vars

\* Every upstream call eventually returns or fails.
FairSpec ==
  Spec /\ \A r \in Reqs : WF_vars(Reply1(r)) /\ WF_vars(Reply2(r))

--------------------------------------------------------------------------
\* Two invocations of one handler in flight at the same time: the runtime
\* interleaves them at their awaits.  Their inputs and the upstream
\* outcomes are drawn from smaller sets.

ConcReqs == {1, 2}

ConcEnvs ==
  [impl : Impls, CLIENT_TOKEN : {[set |-> FALSE, val |-> NoText]},
   OPENAI_API_KEY : {TRUE}]

ConcMethods == {"GET", "POST"}

ConcBodies ==
  {ObjBody(StrField(SrcKorean), StrField(LangUz)),
   ObjBody(StrField(SrcPadded), StrField(LangUz)),
   ObjBody(NumField, StrField(LangUz))}

ConcReplies ==
  {NetFail,
   Http(429, "content", <<97>>),
   Http(200, "content", NoText),
   Http(200, "content", <<44032>>),
   Http(200, "content", <<85, 122, 114>>),
   Http(200, "content", <<32, 97, 10, 98, 32>>)}

ConcInit ==
  /\ env \in ConcEnvs
  /\ rq = [r \in ConcReqs |-> Idle]
  /\ served = 0

\* A request arrives while the other invocation may be suspended.
ConcRequest(r) ==
  /\ rq[r].pc = "idle"
  /\ served < MaxRequests
  /\ \E m \in ConcMethods, b \in ConcBodies :
        rq' = [rq EXCEPT ![r] =
                 Invoke(env, [Idle EXCEPT !.method = m, !.body = b])]
  /\ served' = served + 1
  /\ UNCHANGED env

\* The first upstream call of invocation r returns or fails.
ConcReply1(r) ==
  /\ rq[r].pc = "await1"
  /\ \E reply \in ConcReplies :
        rq' = [rq EXCEPT ![r] = Resume1(env, rq[r], reply)]
  /\ UNCHANGED <<env, served>>

\* The second upstream call of invocation r returns or fails.
ConcReply2(r) ==
  /\ rq[r].pc = "await2"
  /\ \E reply \in ConcReplies :
        rq' = [rq EXCEPT ![r] = Resume2(env, rq[r], reply)]
  /\ UNCHANGED <<env, served>>

\* The response of invocation r has been sent and its locals are dropped.
ConcRelease(r) ==
  /\ rq[r].pc = "done"
  /\ rq' = [rq EXCEPT ![r] = Idle]
  /\ UNCHANGED <<env, served>>

ConcNext ==
  \E r \in ConcReqs :
     ConcRequest(r) \/ ConcReply1(r) \/ ConcReply2(r) \/ ConcRelease(r)

SpecConc == ConcInit /\ [][ConcNext]_vars

--------------------------------------------------------------------------
\* Vocabulary of the properties.

Answered(r) == rq[r].pc = "done"

Is200Translation(r) ==
  Answered(r) /\ rq[r].res.status = 200 /\ rq[r].res.shape = "translate"

Calls(r) == Len(rq[r].sent)

\* Attempt i produced a completion: the provider answered with a success
\* status and a parsable body.
HasOutput(r, i) ==
  /\ Len(rq[r].got) >= i
  /\ rq[r].got[i].net = "ok"
  /\ RespOk(rq[r].got[i])
  /\ rq[r].got[i].json # "invalid"

\* Attempt i was answered with a non-success status.
NonSuccess(r, i) ==
  /\ Len(rq[r].got) >= i
  /\ rq[r].got[i].net = "ok"
  /\ ~RespOk(rq[r].got[i])

\* The normalized output of attempt i: cyrToLatin, then unifyApostrophe.
Normalized(r, i) ==
  unifyApostrophe(cyrToLatin(env.impl, ContentOf(rq[r].got[i])))

RefusalLexicon ==
  {W_kechirasiz, W_uzr, W_sorry, W_i_cannot, W_men_bajara_olmayman, W_impossible}

\* The verdict of the output validator, rules in precedence order.
Verdict(t) ==
  IF Trim(t) = NoText THEN "empty"
  ELSE IF hasHangul(t) THEN "containsSourceScript"
  ELSE IF \E w \in RefusalLexicon : StartsWith(ToLowerCase(Trim(t)), w)
    THEN "looksLikeRefusal"
  ELSE IF Includes(t, <<QMARK, QMARK, QMARK>>) THEN "placeholderGarbage"
  ELSE "ok"

\* Base64 decoding and UTF-8 decoding, as a client of the endpoint does them.
B64Value(c) ==
  IF c >= 65 /\ c <= 90 THEN c - 65
  ELSE IF c >= 97 /\ c <= 122 THEN c - 97 + 26
  ELSE IF c >= 48 /\ c <= 57 THEN c - 48 + 52
  ELSE IF c = 43 THEN 62
  ELSE IF c = 47 THEN 63
  ELSE 0

RECURSIVE Base64Decode(_)
Base64Decode(t) ==
  IF Len(t) < 4 THEN <<>>
  ELSE LET a == B64Value(t[1])
           b == B64Value(t[2])
           c == B64Value(t[3])
           d == B64Value(t[4])
           b1 == a * 4 + (b \div 16)
           b2 == (b % 16) * 16 + (c \div 4)
           b3 == (c % 4) * 64 + d
       IN (IF t[3] = B64PAD THEN <<b1>>
           ELSE IF t[4] = B64PAD THEN <<b1, b2>>
           ELSE <<b1, b2, b3>>) \o Base64Decode(SubSeq(t, 5, Len(t)))

IsCont(b, i) == Len(b) >= i /\ b[i] >= 128 /\ b[i] <= 191

\* UTF-8 bytes to UTF-16 code units; a byte that starts no well-formed
\* sequence decodes to U+FFFD.
RECURSIVE Utf8Decode(_)
Utf8Decode(b) ==
  IF b = <<>> THEN <<>>
  ELSE IF b[1] < 128 THEN <<b[1]>> \o Utf8Decode(Tail(b))
  ELSE IF b[1] >= 194 /\ b[1] <= 223 /\ IsCont(b, 2)
    THEN <<(b[1] - 192) * 64 + (b[2] - 128)>> \o Utf8Decode(SubSeq(b, 3, Len(b)))
  ELSE IF b[1] >= 224 /\ b[1] <= 239 /\ IsCont(b, 2) /\ IsCont(b, 3)
          /\ (b[1] - 224) * 4096 + (b[2] - 128) * 64 + (b[3] - 128) >= 2048
    THEN <<(b[1] - 224) * 4096 + (b[2] - 128) * 64 + (b[3] - 128)>>
           \o Utf8Decode(SubSeq(b, 4, Len(b)))
  ELSE IF b[1] >= 240 /\ b[1] <= 244 /\ IsCont(b, 2) /\ IsCont(b, 3) /\ IsCont(b, 4)
    THEN LET cp == (b[1] - 240) * 262144 + (b[2] - 128) * 4096
                     + (b[3] - 128) * 64 + (b[4] - 128)
         IN <<55296 + ((cp - 65536) \div 1024), 56320 + ((cp - 65536) % 1024)>>
              \o Utf8Decode(SubSeq(b, 5, Len(b)))
  ELSE <<65533>> \o Utf8Decode(Tail(b))

\* Position i of t holds a surrogate that is not half of a pair.
UnpairedAt(t, i) ==
  \/ /\ t[i] >= 55296 /\ t[i] <= 56319
     /\ ~(i < Len(t) /\ t[i + 1] >= 56320 /\ t[i + 1] <= 57343)
  \/ /\ t[i] >= 56320 /\ t[i] <= 57343
     /\ ~(i > 1 /\ t[i - 1] >= 55296 /\ t[i - 1] <= 56319)

WellFormed(t) == \A i \in 1..Len(t) : ~UnpairedAt(t, i)

--------------------------------------------------------------------------
\* Properties.

\* C1: a request never has more than two upstream completion calls, whatever
\* the upstream replies.
C1_AtMostTwoCalls == \A r \in Reqs : Calls(r) <= 2

\* A request answered 200 after two upstream calls.
C1_Witness == \E r \in Reqs : Is200Translation(r) /\ Calls(r) = 2

\* C2: a 200 response whose text is not the local fallback carries no code
\* point in U+3131..U+D7A3.
C2_NoHangulWithoutFallback ==
  \A r \in Reqs :
     (Is200Translation(r) /\ ~rq[r].usedFallback) => ~hasHangul(rq[r].res.text)

\* C3: when both attempts produced a defective normalized output, the
\* request is answered after exactly two calls with the local fallback, 200
\* and a non-empty result_b64.
C3_FallbackAfterTwoDefects ==
  \A r \in Reqs :
     (/\ Answered(r)
      /\ HasOutput(r, 1) /\ Verdict(Normalized(r, 1)) # "ok"
      /\ HasOutput(r, 2) /\ Verdict(Normalized(r, 2)) # "ok")
       => /\ Calls(r) = 2
          /\ rq[r].usedFallback
          /\ rq[r].res.status = 200
          /\ rq[r].res.b64 # NoText

\* C4: no 200 translation response carries an empty text or an empty
\* result_b64.
C4_NoEmptySuccess ==
  \A r \in Reqs :
     Is200Translation(r) => (rq[r].res.text # NoText /\ rq[r].res.b64 # NoText)

\* C5: an attempt answered with a non-success status is the last call of
\* the request, and the response has the provider's status and a body
\* {error, detail}; it is never 200.
C5_UpstreamErrorIsHardStop ==
  \A r \in Reqs : \A i \in 1..2 :
     (Answered(r) /\ NonSuccess(r, i))
       => /\ Calls(r) = i
          /\ rq[r].res.status = rq[r].got[i].status
          /\ rq[r].res.shape = "error_detail"
          /\ rq[r].res.status # 200

\* C6 as stated: with a client token configured, a POST whose Authorization
\* header is not "Bearer " followed by that token is answered 401 without an
\* upstream call.
C6_Original ==
  \A r \in Reqs :
     (/\ rq[r].pc # "idle"
      /\ rq[r].method = "POST"
      /\ env.CLIENT_TOKEN.set
      /\ rq[r].authorization # BearerPrefix \o env.CLIENT_TOKEN.val)
       => (Answered(r) /\ rq[r].res.status = 401 /\ Calls(r) = 0)

\* The value after "Bearer " of the Authorization header, else empty.
BearerValue(auth) ==
  IF Len(auth) >= 7 /\ SubSeq(auth, 1, 7) = BearerPrefix
  THEN SubSeq(auth, 8, Len(auth)) ELSE NoText

\* C6 as amended: with a client token configured, a POST whose Bearer value
\* differs from the token after both are trimmed of surrounding whitespace
\* is answered 401 without an upstream call.
C6_TrimmedTokenMismatch401 ==
  \A r \in Reqs :
     (/\ rq[r].pc # "idle"
      /\ rq[r].method = "POST"
      /\ env.CLIENT_TOKEN.set
      /\ Trim(BearerValue(rq[r].authorization)) # Trim(env.CLIENT_TOKEN.val))
       => (Answered(r) /\ rq[r].res.status = 401 /\ Calls(r) = 0)

\* A POST with a wrong Bearer token was answered 401.
C6_Witness ==
  \E r \in Reqs :
     /\ Answered(r) /\ rq[r].method = "POST"
     /\ env.CLIENT_TOKEN.set /\ env.CLIENT_TOKEN.val = TokenS
     /\ rq[r].authorization = BearerPrefix \o <<120>>
     /\ rq[r].res.status = 401 /\ Calls(r) = 0

\* The case of C7: both attempts produced an output, the first defective,
\* the second with verdict ok.
C7_Case(r) ==
  /\ Answered(r)
  /\ HasOutput(r, 1) /\ Verdict(Normalized(r, 1)) # "ok"
  /\ HasOutput(r, 2) /\ Verdict(Normalized(r, 2)) = "ok"

C8_Case(r) ==
  Answered(r) /\ HasOutput(r, 1) /\ Verdict(Normalized(r, 1)) = "ok"

LacksFields(b) ==
  \/ b.kind = "undefined"
  \/ b.kind = "string" /\ b.json # "object"
  \/ b.text.type # "string"
  \/ b.targetLang.type # "string"

\* C9: a POST that passes the token gate with the API key present and whose
\* body lacks a string text or a string targetLang is answered 400 without
\* an upstream call, and every user message sent upstream is non-empty.
C9_BadBody400AndSourceNonEmpty ==
  \A r \in Reqs :
     /\ (/\ Answered(r)
         /\ rq[r].method = "POST"
         /\ ~TokenRejected(env, rq[r])
         /\ env.OPENAI_API_KEY
         /\ LacksFields(rq[r].body))
          => (rq[r].res.status = 400 /\ Calls(r) = 0)
     /\ \A i \in 1..Calls(r) : rq[r].sent[i].user # NoText

\* C10 as stated: the result_b64 of every 200 response decodes, as Base64
\* and then UTF-8, to exactly the final text.
C10_Original ==
  \A r \in Reqs :
     Is200Translation(r)
       => Utf8Decode(Base64Decode(rq[r].res.b64)) = rq[r].res.text

\* C10 as amended: the result_b64 of every 200 response whose final text has
\* no unpaired surrogate decodes to exactly the final text.
C10_RoundTripWellFormed ==
  \A r \in Reqs :
     (Is200Translation(r) /\ WellFormed(rq[r].res.text))
       => Utf8Decode(Base64Decode(rq[r].res.b64)) = rq[r].res.text

\* A 200 response whose text holds a surrogate pair and decodes to itself.
C10_Witness ==
  \E r \in Reqs :
     /\ Is200Translation(r)
     /\ rq[r].res.text = <<55357, 56832>>
     /\ Utf8Decode(Base64Decode(rq[r].res.b64)) = rq[r].res.text

\* C11: every non-ok verdict of the first attempt's normalized output is
\* followed by the retry call, so that no request is answered after one call
\* with a defective first output or with the fallback.
C11_DefectiveFirstIsRetried ==
  \A r \in Reqs :
     (HasOutput(r, 1) /\ Verdict(Normalized(r, 1)) # "ok") => Calls(r) = 2

\* C12: the system prompt of a second upstream call differs from the system
\* prompt of the first call of the same request.
C12_RetryPromptDiffers ==
  \A r \in Reqs :
     Calls(r) >= 2 => rq[r].sent[2].system # rq[r].sent[1].system

\* Upstream calls of a request that were issued and not yet answered.
InFlight(r) == Len(rq[r].sent) - Len(rq[r].got)

\* C13: a request has at most one upstream call in flight, and its second
\* call exists only once the first call's reply has been received with a
\* completion, normalized, and found to need the retry.
C13_CallsAreSequential ==
  \A r \in Reqs :
     /\ InFlight(r) \in {0, 1}
     /\ Calls(r) = 2
          => /\ HasOutput(r, 1)
             /\ NeedsRetry(env.impl, Trim(Normalized(r, 1)))
             /\ rq[r].pc = "await2" => rq[r].result_latin = Trim(Normalized(r, 1))

\* The second call is in flight, after the first reply.
C13_Witness ==
  \E r \in Reqs :
     rq[r].pc = "await2" /\ Calls(r) = 2 /\ Len(rq[r].got) = 1 /\ InFlight(r) = 1

\* A first output whose only possible defect is a refusal: it is not empty,
\* has no code point in U+3131..U+D7A3, also when lower-cased, and no "???".
OnlyRefusalCandidate(t) ==
  /\ Trim(t) # NoText
  /\ ~hasHangul(t) /\ ~hasHangul(ToLowerCase(t))
  /\ ~Includes(t, <<QMARK, QMARK, QMARK>>)

BeginsWithRefusal(t) ==
  \E w \in {W_sorry, W_uzr, W_kechirasiz, W_i_cannot, W_impossible} :
     StartsWith(ToLowerCase(Trim(t)), w)

\* C15: the validator classifies a first output as a refusal, and so retries
\* it, exactly when its trimmed, lower-cased form begins with "sorry", "uzr",
\* "kechirasiz", "i cannot" or "impossible"; a text with such a word only
\* after its first position is not retried.
C15_RefusalIsPrefixTest ==
  \A r \in Reqs :
     (HasOutput(r, 1) /\ OnlyRefusalCandidate(Normalized(r, 1)))
       => (Calls(r) = 2 <=> BeginsWithRefusal(Normalized(r, 1)))

\* The Cyrillic letters of the substitution table, in both cases:
\* Che, Sha, Yu, Ya, Yo, Ka with descender, Ghe with stroke, short U,
\* Ha with descender, short I, Zhe, E.
TableCyrillic ==
  {1063, 1095, 1064, 1096, 1070, 1102, 1071, 1103, 1025, 1105,
   1178, 1179, 1170, 1171, 1038, 1118, 1202, 1203, 1049, 1081,
   1046, 1078, 1069, 1101}

HasTableCyrillic(t) == \E i \in 1..Len(t) : t[i] \in TableCyrillic

\* C16: the output of cyrToLatin for every completion has no Cyrillic code
\* point of the substitution table, and a completion without such a code
\* point is returned unchanged (here: up to the apostrophe unification that
\* translate.ts performs inside cyrToLatin).
C16_NoTableCyrillicLeft ==
  \A r \in Reqs : \A i \in 1..Len(rq[r].got) :
     HasOutput(r, i) =>
        LET raw == ContentOf(rq[r].got[i])
        IN /\ ~HasTableCyrillic(cyrToLatin(env.impl, raw))
           /\ ~HasTableCyrillic(raw)
                => cyrToLatin(env.impl, raw) \in {raw, unifyApostrophe(raw)}

HasCurly(t) == \E i \in 1..Len(t) : t[i] \in CurlyApostrophes

\* C17: unifyApostrophe replaces each of U+2018, U+2019, U+02BC, U+02BB of a
\* completion by the ASCII apostrophe in place, leaves the other code units,
\* and is idempotent; the text of a 200 response has none of the four.
C17_ApostrophesUnified ==
  \A r \in Reqs :
     /\ \A i \in 1..Len(rq[r].got) :
           LET s == ContentOf(rq[r].got[i])
               u == unifyApostrophe(s)
           IN /\ Len(u) = Len(s)
              /\ \A k \in 1..Len(s) :
                    u[k] = IF s[k] \in {8216, 8217, 700, 699} THEN 39 ELSE s[k]
              /\ unifyApostrophe(u) = u
     /\ Is200Translation(r) => ~HasCurly(rq[r].res.text)

\* A 200 response whose completion held U+02BB, answered with an apostrophe.
C17_Witness ==
  \E r \in Reqs :
     /\ Is200Translation(r) /\ Calls(r) = 1
     /\ ContentOf(rq[r].got[1]) = <<111, 699>>
     /\ rq[r].res.text = <<111, 39>>

\* C18: the user message of every upstream call is the text field of the
\* request body as received.
C18_UserMessageVerbatim ==
  \A r \in Reqs : \A i \in 1..Calls(r) :
     rq[r].sent[i].user = rq[r].body.text.val

\* A retry of a request whose text has surrounding whitespace.
C18_Witness ==
  \E r \in Reqs :
     /\ Calls(r) = 2
     /\ rq[r].body.text.val = SrcPadded
     /\ rq[r].sent[2].user = SrcPadded

\* The Bearer value of the request differs from the configured token.
WrongToken(r) ==
  /\ env.CLIENT_TOKEN.set
  /\ Trim(BearerValue(rq[r].authorization)) # Trim(env.CLIENT_TOKEN.val)

\* C20: the gates of a POST are passed in the order client token, API key,
\* body, all before any upstream call: a wrong token is answered 401 whatever
\* the API key and the body, and a missing API key behind a right token is
\* answered 500 "Missing OPENAI_API_KEY" whatever the body.
C20_GateOrder ==
  \A r \in Reqs :
     (rq[r].pc # "idle" /\ rq[r].method = "POST")
       => /\ WrongToken(r)
               => (Answered(r) /\ rq[r].res.status = 401 /\ Calls(r) = 0)
          /\ (~WrongToken(r) /\ ~env.OPENAI_API_KEY)
               => /\ Answered(r) /\ Calls(r) = 0
                  /\ rq[r].res.status = 500
                  /\ rq[r].res.error = "Missing OPENAI_API_KEY"
          /\ Calls(r) > 0
               => (~WrongToken(r) /\ env.OPENAI_API_KEY /\ ~LacksFields(rq[r].body))

\* A POST with a wrong token, no API key and an unparsable body, answered 401.
C20_Witness ==
  \E r \in Reqs :
     /\ Answered(r) /\ rq[r].method = "POST"
     /\ WrongToken(r) /\ ~env.OPENAI_API_KEY
     /\ rq[r].body.kind = "string" /\ rq[r].body.json = "invalid"
     /\ rq[r].res.status = 401

\* The statuses a request may be answered with.
AnswerStatuses(r) ==
  {200, 400, 401, 405, 500}
    \cup {rq[r].got[i].status : i \in 1..Len(rq[r].got)}

\* One step of request r keeps the order of the stages: a first call, then
\* possibly a second one, then the response; an answered request changes no
\* more until it is released, and no response exists before it is answered.
C19_StepInOrder(r) ==
  /\ rq[r].pc = "idle" => rq'[r].pc \in {"idle", "await1", "done"}
  /\ rq[r].pc = "await1" => rq'[r].pc \in {"await1", "await2", "done"}
  /\ rq[r].pc = "await2" => rq'[r].pc \in {"await2", "done"}
  /\ rq[r].pc = "done" => (rq'[r] = rq[r] \/ rq'[r] = Idle)
  /\ rq'[r].pc # "done" => rq'[r].res = NoRes
  /\ rq'[r].pc = "done" => rq'[r].res.status \in AnswerStatuses(r)'

\* C19: when every upstream call eventually returns or fails, every request
\* that awaits an upstream call is eventually answered, with one response of
\* status 200, 400, 401, 405, 500 or the provider's, through the stages in
\* their order and without an upstream call after the response.
C19_EveryRequestIsAnswered ==
  /\ \A r \in Reqs :
        (rq[r].pc \in {"await1", "await2"}) ~> (rq[r].pc = "done")
  /\ [][\A r \in Reqs : C19_StepInOrder(r)]_vars

\* A request answered after both upstream calls returned.
C19_Witness ==
  \E r \in Reqs :
     Answered(r) /\ Calls(r) = 2 /\ Len(rq[r].got) = 2 /\ rq[r].res.status = 200

\* What one handler invocation alone makes of the input and of the upstream
\* outcomes recorded in q.
Replay(e, q) ==
  LET start == Invoke(e, [Idle EXCEPT !.method = q.method,
                                      !.authorization = q.authorization,
                                      !.body = q.body])
      after1 == IF Len(q.got) >= 1 /\ start.pc = "await1"
                THEN Resume1(e, start, q.got[1]) ELSE start
  IN IF Len(q.got) >= 2 /\ after1.pc = "await2"
     THEN Resume2(e, after1, q.got[2]) ELSE after1

\* C14: whatever the interleaving of two concurrent requests, the state of
\* each one (its upstream calls and its response) is what its own input, the
\* configuration and its own upstream outcomes determine, and a step of one
\* request leaves the other request's state and the configuration unchanged.
C14_RequestsAreIndependent ==
  /\ [](\A r \in DOMAIN rq :
          /\ rq[r].pc # "idle" => rq[r] = Replay(env, rq[r])
          /\ Len(rq[r].got) <= Len(rq[r].sent))
  /\ [][/\ env' = env
        /\ \A r \in DOMAIN rq :
              rq'[r] # rq[r] => \A o \in DOMAIN rq \ {r} : rq'[o] = rq[o]]_vars

\* Request 1 suspended at its second call while request 2, with another
\* source text, has been answered 200 after its own two calls.
C14_Witness ==
  /\ DOMAIN rq = ConcReqs
  /\ rq[1].pc = "await2"
  /\ rq[2].pc = "done" /\ rq[2].res.status = 200 /\ Len(rq[2].sent) = 2
  /\ rq[1].body # rq[2].body
  /\ rq[1].got # SubSeq(rq[2].got, 1, 1)

====
